---- MODULE Spec2Model ----
(***************************************************************************)
(* A model of actual.py: the CART-style classification tree (class Tree,   *)
(* class Node, class Question, class_counts) and the random forest built   *)
(* on it (class RandomForest, get_random_subsets).                         *)
(*                                                                         *)
(* Python floats are modelled as exact rationals <<numerator, denominator>>*)
(* with a positive denominator, kept in lowest terms.  A row is a sequence *)
(* whose last element is the label (row[-1]); the 0-based column c of the  *)
(* Python code is element c + 1 of the sequence.  A dict is a sequence of  *)
(* <<key, value>> pairs in insertion order.  A Python set is iterated in   *)
(* every possible order.                                                   *)
(***************************************************************************)
EXTENDS Integers, Sequences, FiniteSets

VARIABLES train, tree, pc, stack, ret, found, call, outcome, walk, answer,
          rf_train, rf, rf_pc, rf_i, rf_call, rf_outcome, rf_fitted,
          predictions, top_voted

tree_vars == <<train, tree, pc, stack, ret, found, call, outcome, walk, answer>>
rf_vars == <<rf_train, rf, rf_pc, rf_i, rf_call, rf_outcome, rf_fitted,
             predictions, top_voted>>
vars == <<tree_vars, rf_vars>>

(***************************************************************************)
(* Bounds of the model.                                                    *)
(***************************************************************************)
MaxRows == 3
MaxSC == 2
LargeRows == 15
MaxTrees == 2
MaxFeatures == 2
MaxVoters == 4
FeatureValues == {1, 2, 3}
Labels == {0, 1}
VoteLabels == {0, 1, 2}

(***************************************************************************)
(* Exact rational arithmetic standing for Python's float arithmetic.       *)
(***************************************************************************)
Abs(n) == IF n < 0 THEN 0 - n ELSE n

RECURSIVE GCD(_, _)
GCD(a, b) == IF b = 0 THEN a ELSE GCD(b, a % b)

Norm(r) ==
    LET g == GCD(Abs(r[1]), r[2])
    IN  <<r[1] \div g, r[2] \div g>>

Rat(n) == <<n, 1>>
RDiv(a, b) == Norm(<<a, b>>)
RSub(a, b) == Norm(<<a[1] * b[2] - b[1] * a[2], a[2] * b[2]>>)
RMul(a, b) == Norm(<<a[1] * b[1], a[2] * b[2]>>)
RLt(a, b) == a[1] * b[2] < b[1] * a[2]
RGe(a, b) == a[1] * b[2] >= b[1] * a[2]
RGt(a, b) == a[1] * b[2] > b[1] * a[2]
RIsZero(a) == a[1] = 0

(***************************************************************************)
(* Helpers on sequences and sets.                                          *)
(***************************************************************************)
Range(s) == {s[i] : i \in 1..Len(s)}

RECURSIVE Perms(_)
Perms(S) ==
    IF S = {} THEN {<<>>}
    ELSE UNION {{<<e>> \o p : p \in Perms(S \ {e})} : e \in S}

RECURSIVE SeqsUpTo(_, _)
SeqsUpTo(S, n) ==
    IF n = 0 THEN {<<>>}
    ELSE LET shorter == SeqsUpTo(S, n - 1)
         IN  shorter \cup {Append(s, e) : s \in shorter, e \in S}

RECURSIVE SumSeq(_)
SumSeq(s) == IF s = <<>> THEN 0 ELSE s[1] + SumSeq(Tail(s))

(***************************************************************************)
(* class_counts: the label histogram of a list of rows, a dict in label    *)
(* insertion order.                                                        *)
(***************************************************************************)
Label(row) == row[Len(row)]

HasKey(counts, label) == \E i \in 1..Len(counts) : counts[i][1] = label

DictIncrementOnce(counts, label) ==
    IF HasKey(counts, label) THEN counts
    ELSE Append(counts, <<label, 1>>)

DictIncrement(counts, label) ==
    LET started == IF HasKey(counts, label) THEN counts
                   ELSE Append(counts, <<label, 0>>)
    IN  [i \in 1..Len(started) |->
            IF started[i][1] = label
            THEN <<label, started[i][2] + 1>>
            ELSE started[i]]

RECURSIVE class_counts(_)
class_counts(data) ==
    IF data = <<>> THEN <<>>
    ELSE DictIncrement(class_counts(SubSeq(data, 1, Len(data) - 1)),
                       Label(data[Len(data)]))

(***************************************************************************)
(* Question.match and Tree.partition.                                      *)
(***************************************************************************)
Question(feature, value) == [feature |-> feature, value |-> value]
None == [feature |-> -1, value |-> -1]

match(q, against) == against[q.feature + 1] >= q.value

partition(rows, question) ==
    [true_rows  |-> SelectSeq(rows, LAMBDA row : match(question, row)),
     false_rows |-> SelectSeq(rows, LAMBDA row : ~match(question, row))]

(***************************************************************************)
(* Tree.gini and Tree.info_gain.                                           *)
(***************************************************************************)
RECURSIVE GiniLoop(_, _, _)
GiniLoop(counts, samples, impurity) ==
    IF counts = <<>> THEN impurity
    ELSE LET label_p == RDiv(counts[1][2], samples)
         IN  GiniLoop(Tail(counts), samples, RSub(impurity, RMul(label_p, label_p)))

gini(rows) == GiniLoop(class_counts(rows), Len(rows), Rat(1))

info_gain(left, right, current_uncertainty) ==
    LET prob_left  == RDiv(Len(left), Len(left) + Len(right))
        prob_right == RSub(Rat(1), prob_left)
    IN  RSub(RSub(current_uncertainty, RMul(prob_left, gini(left))),
             RMul(prob_right, gini(right)))

(***************************************************************************)
(* Tree.find_best_split.  The columns are scanned in ascending order, the  *)
(* distinct values of a column (a Python set) in any order.                *)
(***************************************************************************)
NumCols(rows) == Len(rows[1]) - 1

ColumnValues(rows, col) == {row[col + 1] : row \in Range(rows)}

RECURSIVE ScanOrders(_, _)
ScanOrders(rows, col) ==
    IF col >= NumCols(rows) THEN {<<>>}
    ELSE {[i \in 1..Len(vals) |-> Question(col, vals[i])] \o rest :
             vals \in Perms(ColumnValues(rows, col)),
             rest \in ScanOrders(rows, col + 1)}

TooSmallEither(true_rows, false_rows, stopping_criteria) ==
    RLt(Rat(Len(true_rows)), stopping_criteria)
        /\ RLt(Rat(Len(false_rows)), stopping_criteria)

TooSmall(true_rows, false_rows, stopping_criteria) ==
    RLt(Rat(Len(true_rows)), stopping_criteria)
        \/ RLt(Rat(Len(false_rows)), stopping_criteria)

BetterStrictlyLess(g, most_gain) == RLt(g, most_gain)

Better(g, most_gain) == RGe(g, most_gain)

RECURSIVE ScanLoop(_, _, _, _, _)
ScanLoop(order, rows, stopping_criteria, current_gini, best) ==
    IF order = <<>> THEN best
    ELSE LET q == order[1]
             p == partition(rows, q)
             g == info_gain(p.true_rows, p.false_rows, current_gini)
             next ==
                 IF TooSmall(p.true_rows, p.false_rows, stopping_criteria)
                 THEN best
                 ELSE IF Better(g, best.gain)
                      THEN [gain |-> g, question |-> q]
                      ELSE best
         IN  ScanLoop(Tail(order), rows, stopping_criteria, current_gini, next)

find_best_split(rows, stopping_criteria) ==
    {ScanLoop(order, rows, stopping_criteria, gini(rows),
              [gain |-> Rat(0), question |-> None]) :
        order \in ScanOrders(rows, 0)}

(***************************************************************************)
(* class Node.  A Leaf is Node(0, rows), a Decision is                     *)
(* Node(1, None, question, true_branch, false_branch).  n_rows is a ghost  *)
(* field: the number of rows the build call that made the node received.   *)
(***************************************************************************)
NoNode == [is_decision |-> -1]

Leaf(rows) ==
    [is_decision |-> 0, predictions |-> class_counts(rows), n_rows |-> Len(rows)]

Decision(question, true_branch, false_branch, n_rows) ==
    [is_decision |-> 1, question |-> question, true_branch |-> true_branch,
     false_branch |-> false_branch, n_rows |-> n_rows]

BeatsOrTies(pred_number, best_number) == pred_number >= best_number

Beats(pred_number, best_number) == pred_number > best_number

RECURSIVE TopPickLoop(_, _, _)
TopPickLoop(items, best_class, best_number) ==
    IF items = <<>> THEN best_class
    ELSE IF Beats(items[1][2], best_number)
         THEN TopPickLoop(Tail(items), items[1][1], items[1][2])
         ELSE TopPickLoop(Tail(items), best_class, best_number)

top_pick(node) == TopPickLoop(node.predictions, 0, 0)

(***************************************************************************)
(* Tree.fit: the resolution of stopping_criteria.  len(merged_train) / 10  *)
(* is Python 3's true division.                                            *)
(***************************************************************************)
ResolveFloor(stopping_criteria, n_rows) ==
    IF stopping_criteria # 0 THEN Rat(stopping_criteria)
    ELSE Rat(n_rows \div 10)

ResolveArgumentOnly(stopping_criteria, n_rows) == Rat(stopping_criteria)

ResolveStoppingCriteria(stopping_criteria, n_rows) ==
    IF stopping_criteria # 0 THEN Rat(stopping_criteria)
    ELSE RDiv(n_rows, 10)

(***************************************************************************)
(* The inputs of the single tree: every training set of up to MaxRows rows *)
(* of one feature, and one of LargeRows rows (more than ten, so that       *)
(* len / 10 exceeds 1) whose last row alone has the larger value and the   *)
(* other label.                                                            *)
(***************************************************************************)
FeatureRows == {<<a>> : a \in FeatureValues}
Rows == {Append(f, l) : f \in FeatureRows, l \in Labels}
LargeTrain == [i \in 1..LargeRows |-> IF i = LargeRows THEN <<2, 1>> ELSE <<1, 0>>]
TrainSets == (SeqsUpTo(Rows, MaxRows) \ {<<>>}) \cup {LargeTrain}

Features(data) == [i \in 1..Len(data) |-> SubSeq(data[i], 1, Len(data[i]) - 1)]
Targets(data) == [i \in 1..Len(data) |-> Label(data[i])]

FitInputs(data) ==
    {[x |-> Features(data), y |-> Targets(data)],
     [x |-> Features(data), y |-> SubSeq(Targets(data), 1, Len(data) - 1)],
     [x |-> Features(data), y |-> Append(Targets(data), 0)],
     [x |-> <<>>, y |-> <<>>]}

Frame(rows) ==
    [rows |-> rows, stage |-> "enter", question |-> None,
     true_rows |-> <<>>, false_rows |-> <<>>, true_branch |-> NoNode]

NoCall == [op |-> "none", x_len |-> 0, y_len |-> 0, stopping_criteria |-> 0]
NoWalk == [row |-> <<>>, node |-> NoNode, path |-> <<>>]
NoFound == [rows |-> <<>>, gain |-> Rat(0), question |-> None]

OnlyTree == UNCHANGED rf_vars

(***************************************************************************)
(* Tree.__init__                                                           *)
(***************************************************************************)
TreeNew(stopping_criteria) ==
    [stopping_criteria |-> Rat(stopping_criteria), root_node |-> NoNode]

TreeInit ==
    /\ train \in TrainSets
    /\ tree \in {TreeNew(0), TreeNew(MaxSC)}
    /\ pc = "idle"
    /\ stack = <<>>
    /\ ret = NoNode
    /\ found = NoFound
    /\ call = NoCall
    /\ outcome = "none"
    /\ walk = NoWalk
    /\ answer = -1

(***************************************************************************)
(* Tree.fit up to the call of build.  x[0] of an empty x and y[i] of a     *)
(* short y raise IndexError before self is assigned to; a y longer than x  *)
(* raises nothing, its surplus is never read.                              *)
(***************************************************************************)
FitRaises(x, y) == Len(x) = 0 \/ Len(y) < Len(x)

Merged(x, y) == [i \in 1..Len(x) |-> Append(x[i], y[i])]

TreeFitError ==
    /\ OnlyTree
    /\ pc = "idle"
    /\ \E in \in FitInputs(train) :
          /\ FitRaises(in.x, in.y)
          /\ call' = [op |-> "fit", x_len |-> Len(in.x), y_len |-> Len(in.y),
                      stopping_criteria |-> 0]
    /\ outcome' = "error"
    /\ walk' = NoWalk
    /\ answer' = -1
    /\ UNCHANGED <<train, tree, pc, stack, ret, found>>

TreeFit ==
    /\ OnlyTree
    /\ pc = "idle"
    /\ \E in \in FitInputs(train), stopping_criteria \in 0..MaxSC :
          /\ ~FitRaises(in.x, in.y)
          /\ tree' = [tree EXCEPT !.stopping_criteria =
                         ResolveStoppingCriteria(stopping_criteria,
                                                 Len(Merged(in.x, in.y)))]
          /\ stack' = <<Frame(Merged(in.x, in.y))>>
          /\ call' = [op |-> "fit", x_len |-> Len(in.x), y_len |-> Len(in.y),
                      stopping_criteria |-> stopping_criteria]
    /\ pc' = "build"
    /\ ret' = NoNode
    /\ found' = NoFound
    /\ outcome' = "none"
    /\ walk' = NoWalk
    /\ answer' = -1
    /\ UNCHANGED train

(***************************************************************************)
(* Tree.build, one step of the recursion at a time.  stack is the call     *)
(* stack of build, its last element the running call; ret is the value the *)
(* call that just returned handed to its caller; found is a ghost, what    *)
(* the latest find_best_split was given and returned.                      *)
(***************************************************************************)
Top == stack[Len(stack)]
Pop == SubSeq(stack, 1, Len(stack) - 1)
SetTop(f) == [stack EXCEPT ![Len(stack)] = f]

IsBaseCase(gain) == RIsZero(gain)

Found(rows, best) == [rows |-> rows, gain |-> best.gain, question |-> best.question]

BuildLeaf ==
    /\ OnlyTree
    /\ pc = "build" /\ stack # <<>> /\ Top.stage = "enter"
    /\ found' \in {Found(Top.rows, best) :
                      best \in {b \in find_best_split(Top.rows, tree.stopping_criteria) :
                                   IsBaseCase(b.gain)}}
    /\ ret' = Leaf(Top.rows)
    /\ stack' = Pop
    /\ UNCHANGED <<train, tree, pc, call, outcome, walk, answer>>

BuildSplit ==
    /\ OnlyTree
    /\ pc = "build" /\ stack # <<>> /\ Top.stage = "enter"
    /\ found' \in {Found(Top.rows, best) :
                      best \in {b \in find_best_split(Top.rows, tree.stopping_criteria) :
                                   ~IsBaseCase(b.gain)}}
    /\ stack' = Append(SetTop([Top EXCEPT
                                  !.stage = "true",
                                  !.question = found'.question,
                                  !.true_rows = partition(Top.rows, found'.question).true_rows,
                                  !.false_rows = partition(Top.rows, found'.question).false_rows]),
                       Frame(partition(Top.rows, found'.question).true_rows))
    /\ ret' = NoNode
    /\ UNCHANGED <<train, tree, pc, call, outcome, walk, answer>>

BuildFalseBranch ==
    /\ OnlyTree
    /\ pc = "build" /\ stack # <<>> /\ Top.stage = "true" /\ ret # NoNode
    /\ stack' = Append(SetTop([Top EXCEPT !.stage = "false", !.true_branch = ret]),
                       Frame(Top.false_rows))
    /\ ret' = NoNode
    /\ UNCHANGED <<train, tree, pc, found, call, outcome, walk, answer>>

BuildDecision ==
    /\ OnlyTree
    /\ pc = "build" /\ stack # <<>> /\ Top.stage = "false" /\ ret # NoNode
    /\ ret' = Decision(Top.question, Top.true_branch, ret, Len(Top.rows))
    /\ stack' = Pop
    /\ UNCHANGED <<train, tree, pc, found, call, outcome, walk, answer>>

TreeFitReturn ==
    /\ OnlyTree
    /\ pc = "build" /\ stack = <<>> /\ ret # NoNode
    /\ tree' = [tree EXCEPT !.root_node = ret]
    /\ ret' = NoNode
    /\ found' = NoFound
    /\ pc' = "idle"
    /\ outcome' = "ok"
    /\ UNCHANGED <<train, stack, call, walk, answer>>

(***************************************************************************)
(* Tree.classify, one node at a time.  walk.path is a ghost: the branches  *)
(* taken so far.                                                           *)
(***************************************************************************)
TreeClassify ==
    /\ OnlyTree
    /\ pc = "idle" /\ tree.root_node # NoNode
    /\ \E row \in FeatureRows :
          walk' = [row |-> row, node |-> tree.root_node, path |-> <<>>]
    /\ pc' = "classify"
    /\ answer' = -1
    /\ call' = [NoCall EXCEPT !.op = "classify"]
    /\ outcome' = "none"
    /\ UNCHANGED <<train, tree, stack, ret, found>>

ClassifyLeaf ==
    /\ OnlyTree
    /\ pc = "classify" /\ walk.node.is_decision = 0
    /\ answer' = top_pick(walk.node)
    /\ pc' = "idle"
    /\ outcome' = "ok"
    /\ UNCHANGED <<train, tree, stack, ret, found, call, walk>>

ClassifyDescend ==
    /\ OnlyTree
    /\ pc = "classify" /\ walk.node.is_decision = 1
    /\ walk' = IF match(walk.node.question, walk.row)
               THEN [walk EXCEPT !.node = walk.node.true_branch,
                                 !.path = Append(walk.path, TRUE)]
               ELSE [walk EXCEPT !.node = walk.node.false_branch,
                                 !.path = Append(walk.path, FALSE)]
    /\ UNCHANGED <<train, tree, pc, stack, ret, found, call, outcome, answer>>

TreeNext ==
    \/ TreeFitError
    \/ TreeFit
    \/ BuildLeaf
    \/ BuildSplit
    \/ BuildFalseBranch
    \/ BuildDecision
    \/ TreeFitReturn
    \/ TreeClassify
    \/ ClassifyLeaf
    \/ ClassifyDescend


(***************************************************************************)
(* class RandomForest and get_random_subsets.  max_features 0 stands for   *)
(* None: line 332 tests "not self.max_features", which both satisfy.       *)
(* NoIndices marks a Tree whose feature_indices attribute was never set    *)
(* (Tree.__init__ does not create it).                                     *)
(***************************************************************************)
NoIndices == <<-1>>

ForestTree ==
    [stopping_criteria |-> Rat(0), root_node |-> NoNode, feature_indices |-> NoIndices]

RandomForestNew(n_trees, max_features, stopping_criteria) ==
    [n_trees |-> n_trees, max_features |-> max_features,
     stopping_criteria |-> stopping_criteria,
     the_forest |-> [t \in 1..n_trees |-> ForestTree]]

\* int(np.sqrt(n))
ISqrt(n) == CHOOSE k \in 0..n : k * k <= n /\ (k + 1) * (k + 1) > n

\* one subset: n_samples rows drawn with replacement from the shuffled rows
Bootstraps(rows) == [1..Len(rows) -> Range(rows)]

get_random_subsets(rows, n_subsets) == [1..n_subsets -> Bootstraps(rows)]

\* np.random.choice(range(n_features), size = max_features, replace = True)
FeatureIndices(n_features, max_features) ==
    [1..max_features -> 0..(n_features - 1)]

\* x[:, idx] on one row
Project(row, idx) == [k \in 1..Len(idx) |-> row[idx[k] + 1]]

\* Tree.build as a whole: every tree some scan order of the sets can produce
RECURSIVE build(_, _)
build(rows, stopping_criteria) ==
    UNION { IF IsBaseCase(b.gain)
            THEN {Leaf(rows)}
            ELSE LET p == partition(rows, b.question)
                 IN  {Decision(b.question, tf[1], tf[2], Len(rows)) :
                         tf \in build(p.true_rows, stopping_criteria)
                                \X build(p.false_rows, stopping_criteria)}
          : b \in find_best_split(rows, stopping_criteria) }

RECURSIVE classify(_, _)
classify(row, node) ==
    IF node.is_decision = 0 THEN top_pick(node)
    ELSE IF match(node.question, row)
         THEN classify(row, node.true_branch)
         ELSE classify(row, node.false_branch)

random_forest_predict(x, root_node) == [i \in 1..Len(x) |-> classify(x[i], root_node)]

(***************************************************************************)
(* The vote of RandomForest.predict.  np.unique returns the distinct       *)
(* values in ascending order with their counts.                            *)
(***************************************************************************)
RECURSIVE Ascending(_)
Ascending(S) ==
    IF S = {} THEN <<>>
    ELSE LET least == CHOOSE v \in S : \A w \in S : v <= w
         IN  <<least>> \o Ascending(S \ {least})

Occurrences(s, v) == Cardinality({k \in 1..Len(s) : s[k] = v})

unique(s) ==
    LET values == Ascending(Range(s))
    IN  [values |-> values,
         counts |-> [k \in 1..Len(values) |-> Occurrences(s, values[k])]]

MoreVotesOrTies(count, top_class_votes) == count >= top_class_votes

MoreVotes(count, top_class_votes) == count > top_class_votes

RECURSIVE VoteLoop(_, _, _, _)
VoteLoop(counts, j, top_class_votes, top_class_index) ==
    IF j >= Len(counts) THEN top_class_index
    ELSE IF MoreVotes(counts[j + 1], top_class_votes)
         THEN VoteLoop(counts, j + 1, counts[j + 1], j)
         ELSE VoteLoop(counts, j + 1, top_class_votes, top_class_index)

\* votes[0][top_class_index] of an empty votes[0] raises IndexError
VoteRaises(row) == Len(unique(row).values) = 0

top_class(row) ==
    LET votes == unique(row)
    IN  IF Len(votes.values) = 1 THEN votes.values[1]
        ELSE votes.values[VoteLoop(votes.counts, 0, 0, 0) + 1]

Vote(matrix) == [i \in 1..Len(matrix) |-> top_class(matrix[i])]

(***************************************************************************)
(* The forest's inputs: a training set of two feature columns and a        *)
(* label, one-row sample matrices for predict.                             *)
(***************************************************************************)
RfTrainSets == { << <<1, 2, 0>>, <<2, 1, 1>> >> }

PredictInputs == { << <<1, 1>> >>, << <<2, 2>> >> }

NoRfCall == [op |-> "none", malformed |-> FALSE, changed |-> FALSE, subsets |-> <<>>]

OnlyForest == UNCHANGED tree_vars

\* No single tree exists beside the forest.
TreeOff ==
    /\ train = <<>>
    /\ tree = TreeNew(0)
    /\ pc = "off"
    /\ stack = <<>>
    /\ ret = NoNode
    /\ found = NoFound
    /\ call = NoCall
    /\ outcome = "none"
    /\ walk = NoWalk
    /\ answer = -1

\* RandomForest.__init__
ForestInit ==
    /\ rf_train \in RfTrainSets
    /\ \E n_trees \in 0..MaxTrees, max_features \in 0..MaxFeatures,
          stopping_criteria \in 0..1 :
          rf = RandomForestNew(n_trees, max_features, stopping_criteria)
    /\ rf_pc = "idle"
    /\ rf_i = 0
    /\ rf_call = NoRfCall
    /\ rf_outcome = "none"
    /\ rf_fitted = FALSE
    /\ predictions = <<>>
    /\ top_voted = <<>>

\* RandomForest.set_params: setattr and nothing else
RfSetParams ==
    /\ OnlyForest
    /\ rf_pc = "idle"
    /\ \/ \E n_trees \in 0..MaxTrees : rf' = [rf EXCEPT !.n_trees = n_trees]
       \/ \E max_features \in 0..MaxFeatures :
             rf' = [rf EXCEPT !.max_features = max_features]
    /\ rf_call' = [NoRfCall EXCEPT !.op = "set_params", !.changed = rf' # rf]
    /\ rf_outcome' = "ok"
    /\ predictions' = <<>>
    /\ top_voted' = <<>>
    /\ UNCHANGED <<rf_train, rf_pc, rf_i, rf_fitted>>

(***************************************************************************)
(* RandomForest.fit up to its loop.  max_features is resolved first; then  *)
(* get_random_subsets concatenates X and y, which raises ValueError when   *)
(* their lengths differ.  y_len is the length of the y passed with the     *)
(* rows of rf_train.                                                       *)
(***************************************************************************)
ResolveMaxFeatures(max_features, n_features) ==
    IF max_features = 0 THEN ISqrt(n_features) ELSE max_features

RfFit ==
    /\ OnlyForest
    /\ rf_pc = "idle"
    /\ rf' = [rf EXCEPT !.max_features =
                 ResolveMaxFeatures(rf.max_features, Len(rf_train[1]) - 1)]
    /\ \E y_len \in {Len(rf_train) - 1, Len(rf_train), Len(rf_train) + 1} :
          IF y_len # Len(rf_train)
          THEN /\ rf_call' = [NoRfCall EXCEPT !.op = "fit", !.malformed = TRUE,
                                              !.changed = rf' # rf]
               /\ rf_outcome' = "error"
               /\ rf_pc' = "idle"
          ELSE /\ \E subsets \in get_random_subsets(rf_train, rf.n_trees) :
                     rf_call' = [NoRfCall EXCEPT !.op = "fit", !.changed = rf' # rf,
                                                 !.subsets = subsets]
               /\ rf_outcome' = "none"
               /\ rf_pc' = "fit"
    /\ rf_i' = 0
    /\ predictions' = <<>>
    /\ top_voted' = <<>>
    /\ UNCHANGED <<rf_train, rf_fitted>>

\* one pass of the loop of fit: tree i gets its indices and is fitted
RfFitTree ==
    /\ OnlyForest
    /\ rf_pc = "fit" /\ rf_i < rf.n_trees /\ rf_i < Len(rf.the_forest)
    /\ LET subset == rf_call.subsets[rf_i + 1]
           resolved == ResolveStoppingCriteria(rf.stopping_criteria, Len(subset))
       IN  \E idx \in FeatureIndices(Len(rf_train[1]) - 1, rf.max_features) :
             LET merged == [k \in 1..Len(subset) |->
                              Append(Project(subset[k], idx), Label(subset[k]))]
             IN  \E root_node \in build(merged, resolved) :
                    rf' = [rf EXCEPT !.the_forest[rf_i + 1] =
                              [stopping_criteria |-> resolved,
                               root_node |-> root_node,
                               feature_indices |-> idx]]
    /\ rf_i' = rf_i + 1
    /\ rf_call' = [rf_call EXCEPT !.changed = TRUE]
    /\ UNCHANGED <<rf_train, rf_pc, rf_outcome, rf_fitted, predictions, top_voted>>

\* self.the_forest[i] past the end of the list: IndexError
RfFitIndexError ==
    /\ OnlyForest
    /\ rf_pc = "fit" /\ rf_i < rf.n_trees /\ rf_i >= Len(rf.the_forest)
    /\ rf_pc' = "idle"
    /\ rf_outcome' = "error"
    /\ rf_call' = [rf_call EXCEPT !.subsets = <<>>]
    /\ UNCHANGED <<rf_train, rf, rf_i, rf_fitted, predictions, top_voted>>

RfFitReturn ==
    /\ OnlyForest
    /\ rf_pc = "fit" /\ rf_i >= rf.n_trees
    /\ rf_pc' = "idle"
    /\ rf_outcome' = "ok"
    /\ rf_fitted' = TRUE
    /\ rf_call' = [rf_call EXCEPT !.subsets = <<>>]
    /\ UNCHANGED <<rf_train, rf, rf_i, predictions, top_voted>>

(***************************************************************************)
(* RandomForest.predict.  It walks self.the_forest, not range(n_trees);    *)
(* reading feature_indices of a tree that fit never reached raises         *)
(* AttributeError; the vote of a sample no tree predicted raises           *)
(* IndexError.  Nothing of self is assigned to.                            *)
(***************************************************************************)
PredictionMatrix(x, the_forest) ==
    [i \in 1..Len(x) |->
        [t \in 1..Len(the_forest) |->
            random_forest_predict(
                [k \in 1..Len(x) |-> Project(x[k], the_forest[t].feature_indices)],
                the_forest[t].root_node)[i]]]

PredictRaises(x, the_forest) ==
    \/ \E t \in 1..Len(the_forest) : the_forest[t].feature_indices = NoIndices
    \/ \E i \in 1..Len(x) : VoteRaises(PredictionMatrix(x, the_forest)[i])

RfPredict ==
    /\ OnlyForest
    /\ rf_pc = "idle"
    /\ \E x \in PredictInputs :
          IF PredictRaises(x, rf.the_forest)
          THEN /\ rf_outcome' = "error"
               /\ predictions' = <<>>
               /\ top_voted' = <<>>
          ELSE /\ rf_outcome' = "ok"
               /\ predictions' = PredictionMatrix(x, rf.the_forest)
               /\ top_voted' = Vote(PredictionMatrix(x, rf.the_forest))
    /\ rf_call' = [NoRfCall EXCEPT !.op = "predict"]
    /\ UNCHANGED <<rf_train, rf, rf_pc, rf_i, rf_fitted>>

ForestNext ==
    \/ RfSetParams
    \/ RfFit
    \/ RfFitTree
    \/ RfFitIndexError
    \/ RfFitReturn
    \/ RfPredict

ForestStart == TreeOff /\ ForestInit

ForestSpec == ForestStart /\ [][ForestNext]_vars

(***************************************************************************)
(* The vote alone, on every matrix of up to MaxVoters tree predictions for *)
(* one or two samples.                                                     *)
(***************************************************************************)
VoteMatrices ==
    UNION { [1..n -> [1..k -> VoteLabels]] : n \in 1..2, k \in 0..MaxVoters }

VoteInit ==
    /\ rf_train = <<>>
    /\ rf = RandomForestNew(0, 0, 0)
    /\ rf_pc = "vote"
    /\ rf_i = 0
    /\ rf_call = NoRfCall
    /\ rf_outcome = "none"
    /\ rf_fitted = FALSE
    /\ predictions \in VoteMatrices
    /\ top_voted = <<>>

RfVote ==
    /\ OnlyForest
    /\ rf_pc = "vote"
    /\ IF \E i \in 1..Len(predictions) : VoteRaises(predictions[i])
       THEN /\ rf_outcome' = "error"
            /\ top_voted' = <<>>
       ELSE /\ rf_outcome' = "ok"
            /\ top_voted' = Vote(predictions)
    /\ rf_pc' = "voted"
    /\ UNCHANGED <<rf_train, rf, rf_i, rf_call, rf_fitted, predictions>>

VoteStart == TreeOff /\ VoteInit

VoteSpec == VoteStart /\ [][RfVote]_vars

\* No forest exists beside the single tree.
RfOff ==
    /\ rf_train = <<>>
    /\ rf = RandomForestNew(0, 0, 0)
    /\ rf_pc = "off"
    /\ rf_i = 0
    /\ rf_call = NoRfCall
    /\ rf_outcome = "none"
    /\ rf_fitted = FALSE
    /\ predictions = <<>>
    /\ top_voted = <<>>

TreeStart == TreeInit /\ RfOff

TreeSpec == TreeStart /\ [][TreeNext]_vars

(***************************************************************************)
(* Notions the properties are stated with.                                 *)
(***************************************************************************)
RECURSIVE NodesOf(_)
NodesOf(node) ==
    IF node.is_decision = 1
    THEN {node} \cup NodesOf(node.true_branch) \cup NodesOf(node.false_branch)
    ELSE IF node.is_decision = 0 THEN {node} ELSE {}


CountOf(counts, label) ==
    SumSeq([i \in 1..Len(counts) |-> IF counts[i][1] = label THEN counts[i][2] ELSE 0])

TotalOf(counts) == SumSeq([i \in 1..Len(counts) |-> counts[i][2]])

RECURSIVE LabelCount(_, _)
LabelCount(node, label) ==
    IF node.is_decision = 1
    THEN LabelCount(node.true_branch, label) + LabelCount(node.false_branch, label)
    ELSE CountOf(node.predictions, label)

RowsWith(data, label) == Cardinality({i \in 1..Len(data) : Label(data[i]) = label})

RECURSIVE NodeAt(_, _)
NodeAt(node, path) ==
    IF path = <<>> THEN node
    ELSE NodeAt(IF path[1] THEN node.true_branch ELSE node.false_branch, Tail(path))

FirstMaxLabel(counts) ==
    counts[CHOOSE i \in 1..Len(counts) :
              /\ \A j \in 1..Len(counts) : counts[j][2] <= counts[i][2]
              /\ \A j \in 1..(i - 1) : counts[j][2] < counts[i][2]][1]

Candidates(rows) ==
    UNION {{Question(col, v) : v \in ColumnValues(rows, col)} :
              col \in 0..(NumCols(rows) - 1)}

AtLeast(rows, floor) == floor[1] <= Len(rows) * floor[2]

Eligible(rows, q, floor) ==
    /\ AtLeast(partition(rows, q).true_rows, floor)
    /\ AtLeast(partition(rows, q).false_rows, floor)

GainOf(rows, q) ==
    info_gain(partition(rows, q).true_rows, partition(rows, q).false_rows, gini(rows))

\* The nodes of the tree the latest build made or is making.
BuiltNodes ==
    IF pc = "build"
    THEN NodesOf(ret) \cup UNION {NodesOf(stack[i].true_branch) : i \in 1..Len(stack)}
    ELSE NodesOf(tree.root_node)

\* fit has resolved stopping_criteria: build is running or has returned.
Resolved == pc = "build" \/ (pc = "idle" /\ call.op = "fit" /\ outcome = "ok")

Fitted == pc = "idle" /\ tree.root_node # NoNode

(***************************************************************************)
(* C1 as amended: find_best_split never returns a negative gain, and it    *)
(* returns gain 0 if and only if no eligible candidate split has a         *)
(* positive gain (so also when no eligible candidate exists).              *)
(***************************************************************************)
C1_GainZeroIffNoImprovingSplit ==
    found.rows # <<>> =>
        /\ RGe(found.gain, Rat(0))
        /\ RIsZero(found.gain) <=>
              ~\E q \in Candidates(found.rows) :
                  /\ Eligible(found.rows, q, tree.stopping_criteria)
                  /\ RGt(GainOf(found.rows, q), Rat(0))

\* C1 as stated: gain 0 if and only if no eligible candidate split exists.
C1_AsStated ==
    found.rows # <<>> =>
        /\ RGe(found.gain, Rat(0))
        /\ RIsZero(found.gain) <=>
              ~\E q \in Candidates(found.rows) :
                  Eligible(found.rows, q, tree.stopping_criteria)

C1_Witness ==
    /\ found.rows # <<>>
    /\ RIsZero(found.gain)
    /\ \E q \in Candidates(found.rows) :
          Eligible(found.rows, q, tree.stopping_criteria)

(***************************************************************************)
(* C2: in every tree build produces, a Decision has two non-null children, *)
(* each made from at least stopping_criteria rows, and a Leaf has a        *)
(* non-empty histogram.                                                    *)
(***************************************************************************)
C2_DecisionsAndLeavesWellFormed ==
    \A n \in BuiltNodes :
        /\ n.is_decision = 1 =>
              /\ n.true_branch.is_decision \in {0, 1}
              /\ n.false_branch.is_decision \in {0, 1}
              /\ RGe(Rat(n.true_branch.n_rows), tree.stopping_criteria)
              /\ RGe(Rat(n.false_branch.n_rows), tree.stopping_criteria)
        /\ n.is_decision = 0 => n.predictions # <<>>

C2_Witness ==
    /\ Fitted
    /\ tree.root_node.is_decision = 1
    /\ tree.stopping_criteria = Rat(1)
    /\ tree.root_node.true_branch.n_rows = 1

(***************************************************************************)
(* C3 as amended: fit resolves stopping_criteria to the explicit value     *)
(* when it is non-zero and otherwise to rowCount / 10, not rounded down;   *)
(* the split search accepts only questions whose two sides have at least   *)
(* that many rows, and returns a gain no eligible question exceeds.        *)
(***************************************************************************)
Explicit == Rat(call.stopping_criteria)
Tenth == <<call.x_len, 10>>
Floored == Rat(call.x_len \div 10)

C3_ResolvesToExplicitOrTenth ==
    Resolved =>
        LET want == IF call.stopping_criteria # 0 THEN Explicit ELSE Tenth
        IN  /\ tree.stopping_criteria[1] * want[2] = want[1] * tree.stopping_criteria[2]
            /\ found.rows # <<>> =>
                  /\ found.question # None => Eligible(found.rows, found.question, want)
                  /\ \A q \in Candidates(found.rows) :
                        Eligible(found.rows, q, want) =>
                            RGe(found.gain, GainOf(found.rows, q))

\* C3 as stated: the default is floor(rowCount / 10).
C3_AsStated ==
    Resolved =>
        LET want == IF call.stopping_criteria # 0 THEN Explicit ELSE Floored
        IN  /\ tree.stopping_criteria = want
            /\ found.rows # <<>> =>
                  /\ found.question # None => Eligible(found.rows, found.question, want)
                  /\ \A q \in Candidates(found.rows) :
                        Eligible(found.rows, q, want) =>
                            RGe(found.gain, GainOf(found.rows, q))

C3_Witness ==
    /\ Fitted /\ call.op = "fit" /\ outcome = "ok"
    /\ call.stopping_criteria = 0
    /\ call.x_len >= 10
    /\ tree.root_node.is_decision = 0

(***************************************************************************)
(* C4 as amended: after fit resolves it, stopping_criteria is strictly     *)
(* positive, and it is at least 1 exactly when the argument is non-zero or *)
(* the training set has at least ten rows.                                 *)
(***************************************************************************)
C4_StoppingCriteriaPositive ==
    Resolved =>
        /\ RGt(tree.stopping_criteria, Rat(0))
        /\ RGe(tree.stopping_criteria, Rat(1)) <=>
              (call.stopping_criteria # 0 \/ call.x_len >= 10)

\* C4 as stated: stopping_criteria is at least 1.
C4_AsStated == Resolved => RGe(tree.stopping_criteria, Rat(1))

C4_Witness ==
    /\ Fitted /\ call.op = "fit" /\ outcome = "ok"
    /\ call.stopping_criteria = 0
    /\ call.x_len < 10
    /\ RLt(tree.stopping_criteria, Rat(1))

(***************************************************************************)
(* C5: build terminates; every recursive call gets strictly fewer rows     *)
(* than its caller and at least stopping_criteria of them, and the nesting *)
(* of recursive calls below the first is at most                           *)
(* totalRows / stopping_criteria.  Termination is stated with a variant:   *)
(* a running build can always take a step, and every step that leaves it   *)
(* running lowers a natural number.                                        *)
(***************************************************************************)
C5_StackShrinks ==
    pc = "build" /\ stack # <<>> =>
        /\ \A i \in 2..Len(stack) :
              /\ Len(stack[i].rows) < Len(stack[i - 1].rows)
              /\ RGe(Rat(Len(stack[i].rows)), tree.stopping_criteria)
        /\ RGe(Rat(Len(stack[1].rows)),
               RMul(Rat(Len(stack) - 1), tree.stopping_criteria))

\* Every build call in progress can take its next step.
C5_CanStep ==
    pc = "build" =>
        \/ stack # <<>> /\ Top.stage = "enter" /\ ret = NoNode
              /\ find_best_split(Top.rows, tree.stopping_criteria) # {}
        \/ stack # <<>> /\ Top.stage \in {"true", "false"} /\ ret # NoNode
        \/ stack = <<>> /\ ret # NoNode

\* The steps build still has to take, at most: a call on n rows takes at
\* most 4n - 3 steps, one for a Leaf and three more than its two recursive
\* calls for a Decision.
Remaining(frame) ==
    IF frame.stage = "enter" THEN 4 * Len(frame.rows) - 3
    ELSE IF frame.stage = "true" THEN 4 * Len(frame.false_rows) - 1
    ELSE 1

Variant == SumSeq([i \in 1..Len(stack) |-> Remaining(stack[i])])

C5_BuildTerminates ==
    /\ [](C5_StackShrinks /\ C5_CanStep /\ Variant >= 0)
    /\ [][pc = "build" /\ pc' = "build" => Variant' < Variant]_vars

C5_Witness == pc = "build" /\ Len(stack) = 3

(***************************************************************************)
(* C6: classify goes to true_branch when the sample's feature is at least  *)
(* the question's value and to false_branch otherwise, ends at a Leaf, and *)
(* returns the first label, in insertion order, with the highest count of  *)
(* that Leaf's histogram, which is one of its keys.                        *)
(***************************************************************************)
C6_ClassifyFollowsQuestionsToTopLabel ==
    walk # NoWalk =>
        /\ walk.node = NodeAt(tree.root_node, walk.path)
        /\ \A i \in 1..Len(walk.path) :
              LET at == NodeAt(tree.root_node, SubSeq(walk.path, 1, i - 1))
              IN  /\ at.is_decision = 1
                  /\ walk.path[i] = (walk.row[at.question.feature + 1] >= at.question.value)
        /\ pc = "idle" =>
              /\ walk.node.is_decision = 0
              /\ answer = FirstMaxLabel(walk.node.predictions)
              /\ HasKey(walk.node.predictions, answer)

C6_Witness ==
    /\ pc = "idle" /\ walk # NoWalk
    /\ Len(walk.path) >= 1
    /\ Len(walk.node.predictions) = 2
    /\ walk.node.predictions[1][2] = walk.node.predictions[2][2]
    /\ answer = walk.node.predictions[1][1]

(***************************************************************************)
(* C10: the leaves of a built tree partition the training rows: each       *)
(* Leaf's histogram sums to the number of rows that reached it, and for    *)
(* every label the counts over all leaves add up to the number of training *)
(* rows with that label.                                                   *)
(***************************************************************************)
C10_LeavesPartitionTrainingRows ==
    Fitted =>
        /\ \A n \in NodesOf(tree.root_node) :
              n.is_decision = 0 => TotalOf(n.predictions) = n.n_rows
        /\ \A label \in Labels :
              LabelCount(tree.root_node, label) = RowsWith(train, label)
        /\ tree.root_node.n_rows = Len(train)

C10_Witness ==
    /\ Fitted
    /\ tree.root_node.is_decision = 1
    /\ tree.root_node.true_branch.is_decision = 1
    /\ Len(train) = 3

(***************************************************************************)
(* C7.  For every sample the vote returns a label that the largest number  *)
(* of trees predicted, and of the labels sharing that largest count the    *)
(* smallest one: predictions [0, 1, 1] give 1, predictions [0, 1] give 0.  *)
(* A sample that no tree predicted has no label and the vote raises.       *)
(***************************************************************************)
MostVoted(row, label) ==
    /\ label \in Range(row)
    /\ \A other \in Range(row) :
          /\ Occurrences(row, other) <= Occurrences(row, label)
          /\ Occurrences(row, other) = Occurrences(row, label) => label <= other

C7_VoteReturnsSmallestMostVotedLabel ==
    rf_pc = "voted" =>
        /\ rf_outcome = "ok" <=> \A i \in 1..Len(predictions) : predictions[i] # <<>>
        /\ rf_outcome = "ok" =>
              /\ Len(top_voted) = Len(predictions)
              /\ \A i \in 1..Len(predictions) :
                    /\ MostVoted(predictions[i], top_voted[i])
                    /\ predictions[i] = <<0, 1, 1>> => top_voted[i] = 1
                    /\ predictions[i] = <<0, 1>> => top_voted[i] = 0

C7_Witness ==
    /\ rf_pc = "voted" /\ rf_outcome = "ok"
    /\ predictions = << <<2, 1, 1, 2>>, <<0, 1, 1, 0>> >>
    /\ top_voted = <<1, 0>>

(***************************************************************************)
(* C8.  As stated: a fit called with malformed input ends in an error and  *)
(* leaves the model as it was before the call.  RandomForest.fit resolves  *)
(* max_features before get_random_subsets meets the length mismatch.       *)
(***************************************************************************)
C8_AsStated ==
    (rf_pc = "idle" /\ rf_call.op = "fit" /\ rf_call.malformed) =>
        (rf_outcome = "error" /\ ~rf_call.changed)

(***************************************************************************)
(* C9.  As stated: once a fit has completed, the forest holds exactly      *)
(* n_trees trees, each fitted and each with max_features feature indices,  *)
(* whatever calls follow, and predict changes no tree.  set_params         *)
(* assigns n_trees and max_features and leaves the_forest alone.           *)
(***************************************************************************)
C9_AsStated ==
    /\ [](rf_fitted /\ rf_pc = "idle" =>
            /\ Len(rf.the_forest) = rf.n_trees
            /\ \A t \in 1..Len(rf.the_forest) :
                  /\ rf.the_forest[t].root_node # NoNode
                  /\ rf.the_forest[t].feature_indices # NoIndices
                  /\ Len(rf.the_forest[t].feature_indices) = rf.max_features)
    /\ [][rf_call'.op = "predict" => rf'.the_forest = rf.the_forest]_vars

====
